---- MODULE Spec2Model ----
(***************************************************************************)
(* swiftwire: a length-prefixed binary protocol over TCP.                  *)
(*                                                                         *)
(* The module models                                                       *)
(*   - the wire codec of include/swiftwire/protocol.hpp,                   *)
(*   - the server's per-connection Session of src/server.cpp,              *)
(*   - the client's async_connect / async_handshake of src/client.cpp.     *)
(*                                                                         *)
(* Completion handlers of Boost.Asio run to completion; an action of Spec  *)
(* is one whole handler.  The operating system and the peer are the        *)
(* environment: they complete outstanding operations and let timers        *)
(* expire.  A completion is first queued (its result fixed, the buffer     *)
(* filled) and its handler runs in a later step, as io_context does.       *)
(***************************************************************************)
EXTENDS Integers, Sequences, FiniteSets, TLC

(***************************************************************************)
(* Bounds of the model.                                                    *)
(***************************************************************************)
\* cfg_.max_frame of the modelled server (ServerConfig is chosen by the caller)
MaxFrame == 11
\* cfg_.max_write_queue_bytes of the modelled server: two HELLO_ACK frames
MaxWriteQueueBytes == 28
\* handlers of finished timer waits that may sit in the io_context queue
MaxTimerCbs == 1

(***************************************************************************)
(* Wire codec.  A uint32_t is a pair of 16-bit limbs, a uint64_t four      *)
(* 16-bit limbs, most significant limb first, so that every value of the   *)
(* type is representable with small integers.                              *)
(***************************************************************************)
MSG_HELLO == 1
MSG_HELLO_ACK == 129

Byte == 0..255

\* the n-bit-limb value v shifted right by sh bits (sh a multiple of 8), & 0xFF
ShrByte(v, sh) ==
    LET limb == v[Len(v) - (sh \div 16)]
    IN  IF sh % 16 = 0 THEN limb % 256 ELSE (limb \div 256) % 256

\* (v << 8) | b on a uint64_t: the top byte is shifted out
Shl8Or(v, b) ==
    << ((v[1] % 256) * 256) + (v[2] \div 256),
       ((v[2] % 256) * 256) + (v[3] \div 256),
       ((v[3] % 256) * 256) + (v[4] \div 256),
       ((v[4] % 256) * 256) + b >>

\* a small natural number as uint32_t / uint64_t
U32(n) == <<n \div 65536, n % 65536>>
U64(n) == <<0, 0, n \div 65536, n % 65536>>

\* the natural number of a uint32_t whose high limb is 0 (used below 2^16 only)
U32ToNat(v) == v[2]

\* unsigned comparison v > w of two limb sequences of the same width
RECURSIVE UGt(_, _)
UGt(v, w) ==
    IF v = <<>> THEN FALSE
    ELSE IF Head(v) # Head(w) THEN Head(v) > Head(w)
    ELSE UGt(Tail(v), Tail(w))

\* write_u32be with the least significant byte first
write_u32le(v) ==
    <<ShrByte(v, 0), ShrByte(v, 8), ShrByte(v, 16), ShrByte(v, 24)>>

write_u32be(v) ==
    <<ShrByte(v, 24), ShrByte(v, 16), ShrByte(v, 8), ShrByte(v, 0)>>

read_u32be(p) ==
    <<(p[1] * 256) + p[2], (p[3] * 256) + p[4]>>

write_u64be(v) ==
    << ShrByte(v, 56), ShrByte(v, 48), ShrByte(v, 40), ShrByte(v, 32),
       ShrByte(v, 24), ShrByte(v, 16), ShrByte(v, 8), ShrByte(v, 0) >>

RECURSIVE read_u64be_loop(_, _, _)
read_u64be_loop(p, i, v) ==
    IF i > 8 THEN v ELSE read_u64be_loop(p, i + 1, Shl8Or(v, p[i]))

read_u64be(p) == read_u64be_loop(p, 1, <<0, 0, 0, 0>>)

(***************************************************************************)
(* Inputs the peer may send.                                               *)
(***************************************************************************)
\* client ids on the wire (8 bytes, big-endian): 42 and 7
IdInputs ==
    { <<0, 0, 0, 0, 0, 0, 0, 42>>,
      <<0, 0, 0, 0, 0, 0, 0, 7>> }

\* first body bytes: HELLO and an unrecognised type
TypeInputs == {MSG_HELLO, 2}

\* length prefixes: 0, short, HELLO, the ceiling, ceiling + 1, and 65545
LenInputs ==
    { write_u32be(U32(0)), write_u32be(U32(5)), write_u32be(U32(9)),
      write_u32be(U32(MaxFrame)), write_u32be(U32(MaxFrame + 1)),
      <<0, 1, 0, 9>> }

RECURSIVE Zeros(_)
Zeros(n) == IF n <= 0 THEN <<>> ELSE <<0>> \o Zeros(n - 1)

\* the bodies of exactly n bytes: a type byte, the id bytes, filler bytes 0
BodyInputs(n, types, ids) ==
    { SubSeq(<<ty>> \o id \o Zeros(n), 1, n) : ty \in types, id \in ids }

\* bytes transferred by a write that ends in an error
PartialN == {0, 7}

(***************************************************************************)
(* State.                                                                  *)
(*                                                                         *)
(* session: the fields of AsyncServer::Session (server.cpp:120-128), the   *)
(*   waits of timer_, the outstanding socket operations, and history:      *)
(*     started      start() ran                                            *)
(*     closed_ lenbuf_ body_ write_queue_ pending_bytes_   the fields      *)
(*     t_armed      timer_ has a wait that has not expired                 *)
(*     t_fired      queued wait handlers with ec = success                 *)
(*     t_aborted    queued wait handlers with ec = operation_aborted       *)
(*     rd_kind      the outstanding async_read: "none", "len", "body"      *)
(*     rd_st        "none", "pending", "ok" (queued, success), "err"       *)
(*     wr_ops       the outstanding async_writes: [buf, st]                *)
(*     ub           front()/pop_front() ran on an empty deque              *)
(*     close_calls  history: executions of shutdown + close (lines 114-115)*)
(*     enq_log      history: frames passed to enqueue_write by the handler *)
(*     enq_rejected history: enqueue_write took the overflow branch        *)
(*     enq_queued   history: bytes in write_queue_ at the limit check      *)
(*                  that ran last                                          *)
(*   pending_bytes_ is a size_t: an integer r stands for r mod 2^64, so a  *)
(*   negative r is a wrapped value near 2^64.                              *)
(* cb: history, the handler that ran last: [name, open, ec], open being    *)
(*   whether the session was open when it began, and short: a frame with   *)
(*   fewer than 9 body bytes was dispatched earlier on this session.       *)
(* quiet: the peer sends nothing more and no outstanding I/O completes.    *)
(* mt: when io_context::run() is called by several threads                 *)
(*   (examples/server_example.cpp:22-33) handlers of one session run       *)
(*   concurrently, Session using no strand: the position and the locals of *)
(*   the body-read handler inside enqueue_write (pcA, bufA, tmpA, idleA)   *)
(*   and of the write handler (pcB, ecB, nB, tmpB), and the number of      *)
(*   frames the peer has sent (frames).  Both handlers are "idle" in the   *)
(*   serialized specification.                                             *)
(* client: the AsyncClient and its calls, described with the client below. *)
(* listener: the AsyncServer's accept loop, described with the listener     *)
(*   below.                                                                *)
(* codec: one run of the wire codec on an input value: the value v, the    *)
(*   bytes written, the value read back, and the position pc.              *)
(***************************************************************************)
VARIABLES session, cb, quiet, mt, client, listener, codec

vars == <<session, cb, quiet, mt, client, listener, codec>>

NoCb == [name |-> "none", open |-> TRUE, ec |-> "ok", short |-> FALSE]

SessionInit ==
    [ started |-> FALSE, closed_ |-> FALSE,
      lenbuf_ |-> <<0, 0, 0, 0>>, body_ |-> <<>>,
      write_queue_ |-> <<>>, pending_bytes_ |-> 0,
      t_armed |-> FALSE, t_fired |-> 0, t_aborted |-> 0,
      rd_kind |-> "none", rd_st |-> "none", wr_ops |-> <<>>,
      ub |-> FALSE, close_calls |-> 0, enq_log |-> <<>>,
      enq_rejected |-> FALSE, enq_queued |-> 0 ]

MtIdle ==
    [ pcA |-> "idle", bufA |-> <<>>, tmpA |-> 0, idleA |-> FALSE,
      pcB |-> "idle", ecB |-> "ok", nB |-> 0, tmpB |-> 0, frames |-> 0 ]

\* the AsyncClient after construction: socket closed, no call made
ClientInit ==
    [ sock |-> "closed", lenbuf_ |-> <<0, 0, 0, 0>>, body_ |-> <<>>,
      calls |-> <<>>, closes |-> 0 ]

\* the AsyncServer after construction: acceptor listening, run() not called
ListenerInit ==
    [ running |-> FALSE, accept |-> "none", sock |-> 0, accepted |-> 0,
      sessions |-> <<>>, handled |-> <<>> ]

\* the codec has been given no value
CodecIdle == [pc |-> "idle", v |-> <<>>, bytes |-> <<>>, r |-> <<>>]

Init ==
    /\ session = SessionInit
    /\ cb = NoCb
    /\ quiet = FALSE
    /\ mt = MtIdle
    /\ client = ClientInit
    /\ listener = ListenerInit
    /\ codec = CodecIdle

(***************************************************************************)
(* Session's member functions, as functions from the session to the        *)
(* session after the call.                                                 *)
(***************************************************************************)
\* expires_after cancels the wait that has not expired: its handler is queued
\* with operation_aborted; a handler already queued keeps its result
refresh_timer(s) ==
    [s EXCEPT !.t_aborted = @ + (IF s.t_armed THEN 1 ELSE 0), !.t_armed = TRUE]

cancel_timer(s) ==
    [s EXCEPT !.t_aborted = @ + (IF s.t_armed THEN 1 ELSE 0), !.t_armed = FALSE]

\* the outstanding writes after the socket is closed
RECURSIVE AbortPending(_)
AbortPending(ops) ==
    IF ops = <<>> THEN <<>>
    ELSE <<IF Head(ops).st = "pending" THEN [Head(ops) EXCEPT !.st = "err"]
           ELSE Head(ops)>> \o AbortPending(Tail(ops))

\* fail_and_close without the exchange on closed_
fail_and_close_again(s) ==
    LET s1 == cancel_timer([s EXCEPT !.closed_ = TRUE])
    IN  [s1 EXCEPT
           !.close_calls = @ + 1,
           !.rd_st = IF @ = "pending" THEN "err" ELSE @,
           !.wr_ops = AbortPending(@)]

\* closing the socket completes its outstanding operations with an error;
\* completions already queued keep their result
fail_and_close(s) ==
    IF s.closed_ THEN s
    ELSE LET s1 == cancel_timer([s EXCEPT !.closed_ = TRUE])
         IN  [s1 EXCEPT
                !.close_calls = @ + 1,
                !.rd_st = IF @ = "pending" THEN "err" ELSE @,
                !.wr_ops = AbortPending(@)]

\* an operation started on a closed socket fails at once
IssueSt(s) == IF s.closed_ THEN "err" ELSE "pending"

\* read_len that does not re-arm the idle timer
read_len_unarmed(s) == [s EXCEPT !.rd_kind = "len", !.rd_st = IssueSt(s)]

read_len(s) ==
    LET s1 == refresh_timer(s)
    IN  [s1 EXCEPT !.rd_kind = "len", !.rd_st = IssueSt(s1)]

read_body(s) ==
    LET s1 == refresh_timer(s)
    IN  [s1 EXCEPT !.rd_kind = "body", !.rd_st = IssueSt(s1)]

start(s) == read_len(refresh_timer([s EXCEPT !.started = TRUE]))

do_write(s) ==
    IF s.write_queue_ = <<>> THEN s
    ELSE LET s1 == refresh_timer(s)
         IN  [s1 EXCEPT !.wr_ops =
                Append(@, [buf |-> Head(s1.write_queue_), st |-> IssueSt(s1)])]

\* pending_bytes_ > cfg_.max_write_queue_bytes on size_t
RECURSIVE QueuedBytes(_)
QueuedBytes(q) == IF q = <<>> THEN 0 ELSE Len(Head(q)) + QueuedBytes(Tail(q))

\* history: the verdict of the limit check and the bytes queued at that moment
Checked(s, rejected) ==
    [s EXCEPT !.enq_rejected = rejected,
              !.enq_queued = QueuedBytes(s.write_queue_)]

Overflows(pending) == pending < 0 \/ pending > MaxWriteQueueBytes

enqueue_write(s, buf) ==
    LET s1 == [s EXCEPT !.pending_bytes_ = @ + Len(buf),
                        !.enq_log = Append(@, buf)]
    IN  IF Overflows(s1.pending_bytes_)
        THEN fail_and_close(Checked(s1, TRUE))
        ELSE LET idle == s1.write_queue_ = <<>>
                 s2 == [Checked(s1, FALSE) EXCEPT !.write_queue_ = Append(@, buf)]
             IN  IF idle THEN do_write(s2) ELSE s2

\* a reply whose length prefix leaves out the status byte
send_hello_ack_len9(s, id, status) ==
    enqueue_write(s, write_u32be(U32(1 + 8)) \o <<MSG_HELLO_ACK>>
                       \o write_u64be(id) \o <<status>>)

send_hello_ack(s, id, status) ==
    enqueue_write(s, write_u32be(U32(1 + 8 + 1)) \o <<MSG_HELLO_ACK>>
                       \o write_u64be(id) \o <<status>>)

\* a dispatch that closes the session on a body shorter than 9 bytes
handle_message_strict(s) ==
    LET s1 == cancel_timer(s)
        id == read_u64be(SubSeq(s1.body_, 2, 9))
    IN  IF Len(s1.body_) < 1 + 8 THEN fail_and_close(s1)
        ELSE send_hello_ack(s1, id, IF s1.body_[1] = MSG_HELLO THEN 0 ELSE 1)

\* a dispatch that acknowledges an unknown type with status 0
handle_message_status0(s) ==
    LET s1 == cancel_timer(s)
        id == read_u64be(SubSeq(s1.body_, 2, 9))
    IN  IF Len(s1.body_) < 1 + 8 THEN s1 ELSE send_hello_ack(s1, id, 0)

handle_message(s) ==
    LET s1 == cancel_timer(s)
        id == read_u64be(SubSeq(s1.body_, 2, 9))
    IN  IF s1.body_ = <<>> THEN s1
        ELSE IF s1.body_[1] = MSG_HELLO
             THEN IF Len(s1.body_) < 1 + 8 THEN s1
                  ELSE send_hello_ack(s1, id, 0)
             ELSE IF Len(s1.body_) >= 1 + 8
                  THEN send_hello_ack(s1, id, 1)
                  ELSE s1

\* body_.resize(n): the old bytes are kept, new ones are 0
Resize(body, n) == SubSeq(body \o Zeros(n), 1, n)

\* a length check that rejects blen == max_frame
read_len_handler_below_max(s, ec) ==
    LET blen == read_u32be(s.lenbuf_)
    IN  IF ec = "err" THEN fail_and_close(s)
        ELSE IF blen = U32(0) \/ ~UGt(U32(MaxFrame), blen) THEN fail_and_close(s)
        ELSE read_body([s EXCEPT !.body_ = Resize(@, U32ToNat(blen))])

\* the completion handler of read_len's async_read
read_len_handler(s, ec) ==
    LET blen == read_u32be(s.lenbuf_)
    IN  IF ec = "err" THEN fail_and_close(s)
        ELSE IF blen = U32(0) \/ UGt(blen, U32(MaxFrame)) THEN fail_and_close(s)
        ELSE read_body([s EXCEPT !.body_ = Resize(@, U32ToNat(blen))])

\* the completion handler of read_body's async_read
read_body_handler(s, ec) ==
    IF ec = "err" THEN fail_and_close(s)
    ELSE read_len(handle_message(s))

Min(a, b) == IF a <= b THEN a ELSE b

\* the completion handler of do_write's async_write, n bytes transferred
do_write_handler(s, ec, n) ==
    IF s.write_queue_ = <<>> THEN [s EXCEPT !.ub = TRUE]
    ELSE LET s1 == [s EXCEPT
                      !.pending_bytes_ = @ - Min(n, Len(Head(s.write_queue_))),
                      !.write_queue_ = Tail(@)]
         IN  IF ec = "err" THEN fail_and_close(s1)
             ELSE IF s1.write_queue_ # <<>> THEN do_write(s1) ELSE s1

\* the handler of a timer_ wait
timer_handler(s, ec) ==
    IF ec = "aborted" THEN s ELSE fail_and_close(s)

(***************************************************************************)
(* Actions of the serialized server: one handler per step.                 *)
(***************************************************************************)
\* a handler may run when the io_context queue has room for the wait handlers
\* it may queue (every handler cancels at most three waits)
Runnable == /\ ~session.ub
            /\ session.t_fired + session.t_aborted <= MaxTimerCbs

Entered(s) == [s EXCEPT !.enq_log = <<>>, !.enq_rejected = FALSE,
                        !.enq_queued = 0]

Note(name, ec) ==
    cb' = [name |-> name, open |-> ~session.closed_, ec |-> ec,
           short |-> cb.short \/ ( /\ name = "read_body" /\ ec = "ok"
                                    /\ Len(session.body_) < 9 )]

RemoveAt(q, i) == SubSeq(q, 1, i - 1) \o SubSeq(q, i + 1, Len(q))

Start ==
    /\ ~session.started
    /\ session' = start(Entered(session))
    /\ Note("start", "ok")
    /\ UNCHANGED <<quiet, mt, client, listener, codec>>

\* the peer's four length bytes arrive
PeerSendsLenFrom(prefixes) ==
    /\ ~quiet /\ ~session.ub
    /\ session.rd_kind = "len" /\ session.rd_st = "pending"
    /\ \E p \in prefixes :
          session' = [session EXCEPT !.lenbuf_ = p, !.rd_st = "ok"]
    /\ UNCHANGED <<cb, quiet, mt, client, listener, codec>>

\* the peer's body bytes arrive: exactly the size of body_
PeerSendsBodyFrom(types, ids) ==
    /\ ~quiet /\ ~session.ub
    /\ session.rd_kind = "body" /\ session.rd_st = "pending"
    /\ \E b \in BodyInputs(Len(session.body_), types, ids) :
          session' = [session EXCEPT !.body_ = b, !.rd_st = "ok"]
    /\ UNCHANGED <<cb, quiet, mt, client, listener, codec>>

\* the outstanding read ends in an error (end of file, reset)
ReadFails ==
    /\ ~quiet /\ ~session.ub
    /\ session.rd_st = "pending"
    /\ session' = [session EXCEPT !.rd_st = "err"]
    /\ UNCHANGED <<cb, quiet, mt, client, listener, codec>>

\* an outstanding write is taken by the peer, or ends in an error
WriteCompletes ==
    /\ ~quiet /\ ~session.ub
    /\ \E i \in DOMAIN session.wr_ops, r \in {"ok", "err"} :
          /\ session.wr_ops[i].st = "pending"
          /\ session' = [session EXCEPT !.wr_ops[i].st = r]
    /\ UNCHANGED <<cb, quiet, mt, client, listener, codec>>

\* idle_timeout passes without the wait being cancelled
TimerExpires ==
    /\ ~session.ub
    /\ session.t_armed
    /\ session.t_fired < MaxTimerCbs
    /\ session' = [session EXCEPT !.t_armed = FALSE, !.t_fired = @ + 1]
    /\ UNCHANGED <<cb, quiet, mt, client, listener, codec>>

ReadLenCb ==
    /\ Runnable
    /\ session.rd_kind = "len" /\ session.rd_st \in {"ok", "err"}
    /\ session' = read_len_handler(
                     [Entered(session) EXCEPT !.rd_kind = "none", !.rd_st = "none"],
                     session.rd_st)
    /\ Note("read_len", session.rd_st)
    /\ UNCHANGED <<quiet, mt, client, listener, codec>>

ReadBodyCb ==
    /\ Runnable
    /\ session.rd_kind = "body" /\ session.rd_st \in {"ok", "err"}
    /\ session' = read_body_handler(
                     [Entered(session) EXCEPT !.rd_kind = "none", !.rd_st = "none"],
                     session.rd_st)
    /\ Note("read_body", session.rd_st)
    /\ UNCHANGED <<quiet, mt, client, listener, codec>>

WriteCb ==
    /\ Runnable
    /\ \E i \in DOMAIN session.wr_ops :
          LET op == session.wr_ops[i]
              s0 == [Entered(session) EXCEPT !.wr_ops = RemoveAt(@, i)]
          IN  /\ op.st \in {"ok", "err"}
              /\ \E n \in (IF op.st = "ok" THEN {Len(op.buf)} ELSE PartialN) :
                    session' = do_write_handler(s0, op.st, n)
              /\ Note("write", op.st)
    /\ UNCHANGED <<quiet, mt, client, listener, codec>>

TimerFiredCb ==
    /\ ~session.ub
    /\ session.t_fired > 0
    /\ session' = timer_handler(
                     [Entered(session) EXCEPT !.t_fired = @ - 1], "ok")
    /\ Note("timer", "ok")
    /\ UNCHANGED <<quiet, mt, client, listener, codec>>

TimerAbortedCb ==
    /\ ~session.ub
    /\ session.t_aborted > 0
    /\ session' = timer_handler(
                     [Entered(session) EXCEPT !.t_aborted = @ - 1], "aborted")
    /\ Note("timer_aborted", "aborted")
    /\ UNCHANGED <<quiet, mt, client, listener, codec>>

PeerSendsLen == PeerSendsLenFrom(LenInputs)

PeerSendsBody == PeerSendsBodyFrom(TypeInputs, IdInputs)

\* from here on the peer is silent and no outstanding I/O completes
GoQuiet ==
    /\ ~quiet
    /\ session.started
    /\ quiet' = TRUE
    /\ UNCHANGED <<session, cb, mt, client, listener, codec>>

Next ==
    \/ Start
    \/ PeerSendsLen
    \/ PeerSendsBody
    \/ ReadFails
    \/ WriteCompletes
    \/ TimerExpires
    \/ ReadLenCb
    \/ ReadBodyCb
    \/ WriteCb
    \/ TimerFiredCb
    \/ TimerAbortedCb
    \/ GoQuiet

Spec == Init /\ [][Next]_vars

(***************************************************************************)
(* The serialized server with fairness: a queued handler eventually runs   *)
(* (io_context::run) and a wait that is not cancelled eventually expires   *)
(* (steady_timer).  The peer sends HELLO frames, short frames and a zero   *)
(* length, until it goes quiet.                                            *)
(***************************************************************************)
LivePrefixes ==
    { write_u32be(U32(0)), write_u32be(U32(5)), write_u32be(U32(9)) }

LivePeerSendsLen == PeerSendsLenFrom(LivePrefixes)

LivePeerSendsBody == PeerSendsBodyFrom({MSG_HELLO}, {<<0, 0, 0, 0, 0, 0, 0, 42>>})

LiveNext ==
    \/ Start
    \/ LivePeerSendsLen
    \/ LivePeerSendsBody
    \/ ReadFails
    \/ WriteCompletes
    \/ TimerExpires
    \/ ReadLenCb
    \/ ReadBodyCb
    \/ WriteCb
    \/ TimerFiredCb
    \/ TimerAbortedCb
    \/ GoQuiet

\* a wait that is not cancelled expires (steady_timer) and the queued handler
\* of an expired wait runs (io_context::run); the eviction does not depend on
\* the other handlers being run
LiveSpec ==
    Init /\ [][LiveNext]_vars /\ WF_vars(TimerExpires) /\ WF_vars(TimerFiredCb)

(***************************************************************************)
(* The server run by several threads.  Handlers of one session that are    *)
(* queued at the same time run on different threads: the body-read handler *)
(* (thread A) and the write handler (thread B) both use write_queue_ and   *)
(* pending_bytes_.  Their steps are the statements of enqueue_write        *)
(* (server.cpp:87-94) and of do_write's handler (server.cpp:102-107); a    *)
(* read-modify-write of pending_bytes_ is a load and a store.  The other   *)
(* handlers touch closed_ (an atomic) and run as one step.                 *)
(***************************************************************************)
\* cfg_.threads of the modelled server
Threads == 2
\* frames the peer sends to the server run by several threads
MaxMtFrames == 3

Running ==
    (IF mt.pcA = "idle" THEN 0 ELSE 1) + (IF mt.pcB = "idle" THEN 0 ELSE 1)

WorkerFree == Runnable /\ Running < Threads

\* the body-read handler up to the call of enqueue_write (lines 49-50, 55-84)
MT_ReadBodyCb ==
    /\ WorkerFree /\ mt.pcA = "idle"
    /\ session.rd_kind = "body" /\ session.rd_st \in {"ok", "err"}
    /\ LET s0 == [Entered(session) EXCEPT !.rd_kind = "none", !.rd_st = "none"]
           h  == handle_message(s0)
       IN  IF session.rd_st = "err"
           THEN session' = fail_and_close(s0) /\ UNCHANGED mt
           ELSE IF h.enq_log = <<>>
           THEN session' = read_len(h) /\ UNCHANGED mt
           ELSE /\ session' = [cancel_timer(s0) EXCEPT !.enq_log = h.enq_log]
                /\ mt' = [mt EXCEPT !.pcA = "enq_load", !.bufA = h.enq_log[1]]
    /\ Note("read_body", session.rd_st)
    /\ UNCHANGED <<quiet, client, listener, codec>>

\* line 88, the load of pending_bytes_
MT_EnqLoad ==
    /\ mt.pcA = "enq_load" /\ ~session.ub
    /\ mt' = [mt EXCEPT !.pcA = "enq_store", !.tmpA = session.pending_bytes_]
    /\ UNCHANGED <<session, cb, quiet, client, listener, codec>>

\* line 88, the store
MT_EnqStore ==
    /\ mt.pcA = "enq_store" /\ ~session.ub
    /\ session' = [session EXCEPT !.pending_bytes_ = mt.tmpA + Len(mt.bufA)]
    /\ mt' = [mt EXCEPT !.pcA = "enq_check"]
    /\ UNCHANGED <<cb, quiet, client, listener, codec>>

\* lines 89-90; on overflow enqueue_write returns and the handler goes on to
\* read_len (line 51)
MT_EnqCheck ==
    /\ mt.pcA = "enq_check" /\ ~session.ub
    /\ IF Overflows(session.pending_bytes_)
       THEN /\ session' = read_len(fail_and_close(Checked(session, TRUE)))
            /\ mt' = [mt EXCEPT !.pcA = "idle", !.bufA = <<>>, !.tmpA = 0]
       ELSE /\ mt' = [mt EXCEPT !.pcA = "enq_idle"]
            /\ session' = Checked(session, FALSE)
    /\ UNCHANGED <<cb, quiet, client, listener, codec>>

\* line 91
MT_EnqIdle ==
    /\ mt.pcA = "enq_idle" /\ ~session.ub
    /\ mt' = [mt EXCEPT !.pcA = "enq_push", !.idleA = (session.write_queue_ = <<>>)]
    /\ UNCHANGED <<session, cb, quiet, client, listener, codec>>

\* line 92
MT_EnqPush ==
    /\ mt.pcA = "enq_push" /\ ~session.ub
    /\ session' = [session EXCEPT !.write_queue_ = Append(@, mt.bufA)]
    /\ mt' = [mt EXCEPT !.pcA = "enq_write"]
    /\ UNCHANGED <<cb, quiet, client, listener, codec>>

\* line 93, then the handler's read_len (line 51)
MT_EnqWrite ==
    /\ mt.pcA = "enq_write" /\ ~session.ub
    /\ session' = read_len(IF mt.idleA THEN do_write(session) ELSE session)
    /\ mt' = [mt EXCEPT !.pcA = "idle", !.bufA = <<>>, !.tmpA = 0, !.idleA = FALSE]
    /\ UNCHANGED <<cb, quiet, client, listener, codec>>

\* the write handler is entered with ec and n
MT_WriteCb ==
    /\ WorkerFree /\ mt.pcB = "idle"
    /\ \E i \in DOMAIN session.wr_ops :
          LET op == session.wr_ops[i]
          IN  /\ op.st \in {"ok", "err"}
              /\ \E n \in (IF op.st = "ok" THEN {Len(op.buf)} ELSE PartialN) :
                    mt' = [mt EXCEPT !.pcB = "wr_load", !.ecB = op.st, !.nB = n]
              /\ session' = [Entered(session) EXCEPT !.wr_ops = RemoveAt(@, i)]
              /\ Note("write", op.st)
    /\ UNCHANGED <<quiet, client, listener, codec>>

\* line 103, front() and the load of pending_bytes_
MT_WrLoad ==
    /\ mt.pcB = "wr_load" /\ ~session.ub
    /\ IF session.write_queue_ = <<>>
       THEN session' = [session EXCEPT !.ub = TRUE] /\ UNCHANGED mt
       ELSE /\ mt' = [mt EXCEPT !.pcB = "wr_store",
                        !.tmpB = session.pending_bytes_
                                   - Min(mt.nB, Len(Head(session.write_queue_)))]
            /\ UNCHANGED session
    /\ UNCHANGED <<cb, quiet, client, listener, codec>>

\* line 103, the store
MT_WrStore ==
    /\ mt.pcB = "wr_store" /\ ~session.ub
    /\ session' = [session EXCEPT !.pending_bytes_ = mt.tmpB]
    /\ mt' = [mt EXCEPT !.pcB = "wr_pop"]
    /\ UNCHANGED <<cb, quiet, client, listener, codec>>

\* line 104
MT_WrPop ==
    /\ mt.pcB = "wr_pop" /\ ~session.ub
    /\ IF session.write_queue_ = <<>>
       THEN session' = [session EXCEPT !.ub = TRUE] /\ UNCHANGED mt
       ELSE /\ session' = [session EXCEPT !.write_queue_ = Tail(@)]
            /\ mt' = [mt EXCEPT !.pcB = "wr_tail"]
    /\ UNCHANGED <<cb, quiet, client, listener, codec>>

\* lines 105-106
MT_WrTail ==
    /\ mt.pcB = "wr_tail" /\ ~session.ub
    /\ session' = (IF mt.ecB = "err" THEN fail_and_close(session)
                   ELSE IF session.write_queue_ # <<>> THEN do_write(session)
                   ELSE session)
    /\ mt' = [mt EXCEPT !.pcB = "idle", !.ecB = "ok", !.nB = 0, !.tmpB = 0]
    /\ UNCHANGED <<cb, quiet, client, listener, codec>>

\* a handler that runs as one step needs a free thread; the read chain has one
\* handler at a time
MT_ReadLenCb == WorkerFree /\ mt.pcA = "idle" /\ ReadLenCb

MT_TimerAbortedCb == WorkerFree /\ TimerAbortedCb

\* the peer pipelines up to MaxMtFrames HELLO frames
MT_PeerSendsLen ==
    /\ mt.frames < MaxMtFrames
    /\ ~quiet /\ ~session.ub
    /\ session.rd_kind = "len" /\ session.rd_st = "pending"
    /\ session' = [session EXCEPT !.lenbuf_ = write_u32be(U32(9)), !.rd_st = "ok"]
    /\ mt' = [mt EXCEPT !.frames = @ + 1]
    /\ UNCHANGED <<cb, quiet, client, listener, codec>>

MT_PeerSendsBody == PeerSendsBodyFrom({MSG_HELLO}, {<<0, 0, 0, 0, 0, 0, 0, 42>>})

\* the connection is healthy: every outstanding write is taken by the peer
MT_WriteCompletes ==
    /\ ~session.ub
    /\ \E i \in DOMAIN session.wr_ops :
          /\ session.wr_ops[i].st = "pending"
          /\ session' = [session EXCEPT !.wr_ops[i].st = "ok"]
    /\ UNCHANGED <<cb, quiet, mt, client, listener, codec>>

NextMT ==
    \/ Start
    \/ MT_PeerSendsLen
    \/ MT_PeerSendsBody
    \/ MT_WriteCompletes
    \/ MT_ReadLenCb
    \/ MT_TimerAbortedCb
    \/ MT_ReadBodyCb
    \/ MT_EnqLoad
    \/ MT_EnqStore
    \/ MT_EnqCheck
    \/ MT_EnqIdle
    \/ MT_EnqPush
    \/ MT_EnqWrite
    \/ MT_WriteCb
    \/ MT_WrLoad
    \/ MT_WrStore
    \/ MT_WrPop
    \/ MT_WrTail

SpecMT == Init /\ [][NextMT]_vars

(***************************************************************************)
(* The client (src/client.cpp).                                            *)
(*   client.sock     socket_: "closed", "connecting" or "connected"        *)
(*   client.lenbuf_, client.body_   the read buffers                       *)
(*   client.calls    one record per call of async_connect/async_handshake  *)
(*     kind, client_id, req   the call, its argument, the request bytes    *)
(*     done          *done, the call's "already completed" flag            *)
(*     tw            the call's wait on timer_: "armed", "fired" (expired, *)
(*                   handler queued), "aborted" (cancelled, handler        *)
(*                   queued), "ran" / "skipped" (the handler has run)      *)
(*     op, st        the last operation the call started and its state     *)
(*     results       history: the invocations of the caller's handler      *)
(*     late          history: result of a completion that found *done set  *)
(*   client.closes   history: calls of close()                             *)
(* The callbacks of one client run on one thread (client_example.cpp).     *)
(***************************************************************************)
\* calls the caller makes on one client
MaxCalls == 2
\* calls of close() the caller makes
MaxCloses == 2

\* 1u << 20 as a uint32_t
kMax == <<16, 0>>

\* the client_id of client_example.cpp
ClientIds == {U64(42)}

\* length prefixes the server side may send: 9, 10, 11 and kMax + 1
ClientPrefixes ==
    { write_u32be(U32(9)), write_u32be(U32(10)), write_u32be(U32(11)),
      write_u32be(<<16, 1>>) }

\* reply bodies of n bytes: a HELLO_ACK of id 42 with status 0 or 1, a
\* HELLO_ACK of id 7, a HELLO of id 42
ReplyInputs(n) ==
    { SubSeq(<<r[1]>> \o write_u64be(U64(r[2])) \o <<r[3]>> \o Zeros(n), 1, n) :
        r \in { <<MSG_HELLO_ACK, 42, 0>>, <<MSG_HELLO_ACK, 42, 1>>,
                <<MSG_HELLO_ACK, 7, 0>>, <<MSG_HELLO, 42, 0>> } }

SocketOps == {"connect", "write", "read_len", "read_body"}

NewCall(kind, id) ==
    [ kind |-> kind, client_id |-> id,
      req |-> IF kind = "handshake"
              THEN write_u32be(U32(1 + 8)) \o <<MSG_HELLO>> \o write_u64be(id)
              ELSE <<>>,
      done |-> FALSE, tw |-> "none", op |-> "none", st |-> "none",
      results |-> <<>>, late |-> "none" ]

\* timer_.cancel(): every wait that has not expired completes with
\* operation_aborted
RECURSIVE AbortWaits(_)
AbortWaits(calls) ==
    IF calls = <<>> THEN <<>>
    ELSE <<[Head(calls) EXCEPT !.tw = IF @ = "armed" THEN "aborted" ELSE @]>>
            \o AbortWaits(Tail(calls))

\* socket_.cancel(): every outstanding socket operation completes with
\* operation_aborted; the resolver's operations are not the socket's
RECURSIVE AbortSocketOps(_)
AbortSocketOps(calls) ==
    IF calls = <<>> THEN <<>>
    ELSE LET h == Head(calls)
         IN  <<[h EXCEPT !.st = IF h.op \in SocketOps /\ @ = "pending"
                                THEN "err" ELSE @]>>
                \o AbortSocketOps(Tail(calls))

client_cancel_timer(c) == [c EXCEPT !.calls = AbortWaits(@)]

\* an arm_timer that sets the expiry and starts no wait
client_arm_timer_no_wait(c, k) == [c EXCEPT !.calls = AbortWaits(@)]

\* expires_after cancels the waits that are pending, async_wait starts one
client_arm_timer(c, k) ==
    [c EXCEPT !.calls = [AbortWaits(@) EXCEPT ![k].tw = "armed"]]

socket_cancel(c) == [c EXCEPT !.calls = AbortSocketOps(@)]

socket_close(c) == [socket_cancel(c) EXCEPT !.sock = "closed"]

client_close(c) ==
    [socket_close(client_cancel_timer(c)) EXCEPT !.closes = @ + 1]

\* handler(ec, id, status)
Deliver(c, k, ec, id, status) ==
    [c EXCEPT !.calls[k].results =
                 Append(@, [ec |-> ec, id |-> id, status |-> status])]

\* *done = true; cancel_timer();
Finish(c, k) == client_cancel_timer([c EXCEPT !.calls[k].done = TRUE])

\* if (*done) return;
Late(c, k, ec) == [c EXCEPT !.calls[k].late = ec]

\* an operation started on a socket that is not connected fails at once
IssueClient(c) == IF c.sock = "connected" THEN "pending" ELSE "err"

\* a deadline callback that does not look at *done
connect_on_timeout_unguarded(c, k) ==
    Deliver(socket_close([c EXCEPT !.calls[k].done = TRUE]),
            k, "timed_out", U64(0), 0)

connect_on_timeout(c, k) ==
    IF c.calls[k].done THEN c
    ELSE Deliver(socket_close([c EXCEPT !.calls[k].done = TRUE]),
                 k, "timed_out", U64(0), 0)

handshake_on_timeout(c, k) ==
    IF c.calls[k].done THEN c
    ELSE Deliver(socket_cancel([c EXCEPT !.calls[k].done = TRUE]),
                 k, "timed_out", U64(0), 0)

async_connect(c) ==
    LET k  == Len(c.calls) + 1
        c1 == [c EXCEPT !.calls = Append(@, NewCall("connect", U64(0)))]
    IN  [client_arm_timer(c1, k) EXCEPT !.calls[k].op = "resolve",
                                        !.calls[k].st = "pending"]

async_handshake(c, id) ==
    LET k  == Len(c.calls) + 1
        c1 == [c EXCEPT !.calls = Append(@, NewCall("handshake", id))]
        c2 == client_arm_timer(c1, k)
    IN  [c2 EXCEPT !.calls[k].op = "write", !.calls[k].st = IssueClient(c2)]

\* the completion handler of async_resolve; the range connect closes an open
\* socket before it connects
on_resolve(c, k, ec) ==
    IF c.calls[k].done THEN Late(c, k, ec)
    ELSE IF ec = "err" THEN Deliver(Finish(c, k), k, "err", U64(0), 0)
    ELSE [socket_close(c) EXCEPT !.sock = "connecting",
                                 !.calls[k].op = "connect",
                                 !.calls[k].st = "pending"]

on_connect(c, k, ec2) ==
    IF c.calls[k].done THEN Late(c, k, ec2)
    ELSE Deliver(Finish(c, k), k, ec2, U64(0), 0)

on_write(c, k, ec) ==
    IF c.calls[k].done THEN Late(c, k, ec)
    ELSE IF ec = "err" THEN Deliver(Finish(c, k), k, "err", U64(0), 0)
    ELSE [c EXCEPT !.calls[k].op = "read_len", !.calls[k].st = IssueClient(c)]

\* the prefixes of ClientPrefixes that pass the check are below 2^16
on_read_len(c, k, ec2) ==
    LET blen == read_u32be(c.lenbuf_)
    IN  IF c.calls[k].done THEN Late(c, k, ec2)
        ELSE IF ec2 = "err" THEN Deliver(Finish(c, k), k, "err", U64(0), 0)
        ELSE IF UGt(U32(1 + 8 + 1), blen) \/ UGt(blen, kMax)
        THEN Deliver(Finish(c, k), k, "invalid_argument", U64(0), 0)
        ELSE [c EXCEPT !.body_ = Resize(@, U32ToNat(blen)),
                       !.calls[k].op = "read_body",
                       !.calls[k].st = IssueClient(c)]

\* a body-read completion that does not look at *done
on_read_body_unguarded(c, k, ec3) ==
    LET c1     == Finish(c, k)
        echoed == read_u64be(SubSeq(c1.body_, 2, 9))
    IN  IF ec3 = "err" THEN Deliver(c1, k, "err", U64(0), 0)
        ELSE IF Len(c1.body_) < 1 + 8 + 1
        THEN Deliver(c1, k, "invalid_argument", U64(0), 0)
        ELSE IF c1.body_[1] # MSG_HELLO_ACK
        THEN Deliver(c1, k, "fault", U64(0), 0)
        ELSE IF echoed # c1.calls[k].client_id
        THEN Deliver(c1, k, "fault", U64(0), 0)
        ELSE Deliver(c1, k, "ok", echoed, c1.body_[1 + 8 + 1])

\* a body-read completion that does not compare the echoed id
on_read_body_any_id(c, k, ec3) ==
    IF c.calls[k].done THEN Late(c, k, ec3)
    ELSE LET c1     == Finish(c, k)
             echoed == read_u64be(SubSeq(c1.body_, 2, 9))
         IN  IF ec3 = "err" THEN Deliver(c1, k, "err", U64(0), 0)
             ELSE IF Len(c1.body_) < 1 + 8 + 1
             THEN Deliver(c1, k, "invalid_argument", U64(0), 0)
             ELSE IF c1.body_[1] # MSG_HELLO_ACK
             THEN Deliver(c1, k, "fault", U64(0), 0)
             ELSE Deliver(c1, k, "ok", echoed, c1.body_[1 + 8 + 1])

on_read_body(c, k, ec3) ==
    IF c.calls[k].done THEN Late(c, k, ec3)
    ELSE LET c1     == Finish(c, k)
             echoed == read_u64be(SubSeq(c1.body_, 2, 9))
         IN  IF ec3 = "err" THEN Deliver(c1, k, "err", U64(0), 0)
             ELSE IF Len(c1.body_) < 1 + 8 + 1
             THEN Deliver(c1, k, "invalid_argument", U64(0), 0)
             ELSE IF c1.body_[1] # MSG_HELLO_ACK
             THEN Deliver(c1, k, "fault", U64(0), 0)
             ELSE IF echoed # c1.calls[k].client_id
             THEN Deliver(c1, k, "fault", U64(0), 0)
             ELSE Deliver(c1, k, "ok", echoed, c1.body_[1 + 8 + 1])

\* the handler of the call's async_wait (arm_timer, lines 112-115)
timer_wait_handler(c, k) ==
    IF c.calls[k].tw = "aborted" THEN [c EXCEPT !.calls[k].tw = "skipped"]
    ELSE LET c1 == [c EXCEPT !.calls[k].tw = "ran"]
         IN  IF c.calls[k].kind = "connect" THEN connect_on_timeout(c1, k)
             ELSE handshake_on_timeout(c1, k)

(***************************************************************************)
(* Actions of the client: the caller, the environment, the callbacks.      *)
(***************************************************************************)
server_vars == <<session, cb, quiet, mt, listener, codec>>

\* the caller makes its next call once the handler of the previous one ran
MayCall ==
    /\ Len(client.calls) < MaxCalls
    /\ \A k \in DOMAIN client.calls : client.calls[k].results # <<>>

Pending(k, op) == client.calls[k].op = op /\ client.calls[k].st = "pending"

Queued(k, op) ==
    client.calls[k].op = op /\ client.calls[k].st \in {"ok", "err"}

\* the call's completion is taken from the queue of the io_context
Taken(k) == [client EXCEPT !.calls[k].st = "none"]

C_AsyncConnect ==
    /\ MayCall
    /\ client' = async_connect(client)
    /\ UNCHANGED server_vars

C_AsyncHandshake ==
    /\ MayCall
    /\ \E id \in ClientIds : client' = async_handshake(client, id)
    /\ UNCHANGED server_vars

C_Close ==
    /\ client.closes < MaxCloses
    /\ client' = client_close(client)
    /\ UNCHANGED server_vars

C_TimerExpires ==
    /\ \E k \in DOMAIN client.calls :
          /\ client.calls[k].tw = "armed"
          /\ client' = [client EXCEPT !.calls[k].tw = "fired"]
    /\ UNCHANGED server_vars

C_ResolveCompletes ==
    /\ \E k \in DOMAIN client.calls, r \in {"ok", "err"} :
          /\ Pending(k, "resolve")
          /\ client' = [client EXCEPT !.calls[k].st = r]
    /\ UNCHANGED server_vars

\* a failed range connect leaves the socket closed
C_ConnectCompletes ==
    /\ \E k \in DOMAIN client.calls, r \in {"ok", "err"} :
          /\ Pending(k, "connect")
          /\ client' = [client EXCEPT
                           !.calls[k].st = r,
                           !.sock = IF r = "ok" THEN "connected" ELSE "closed"]
    /\ UNCHANGED server_vars

C_WriteCompletes ==
    /\ \E k \in DOMAIN client.calls, r \in {"ok", "err"} :
          /\ Pending(k, "write")
          /\ client' = [client EXCEPT !.calls[k].st = r]
    /\ UNCHANGED server_vars

C_ServerSendsLen ==
    /\ \E k \in DOMAIN client.calls, p \in ClientPrefixes :
          /\ Pending(k, "read_len")
          /\ client' = [client EXCEPT !.lenbuf_ = p, !.calls[k].st = "ok"]
    /\ UNCHANGED server_vars

C_ServerSendsBody ==
    /\ \E k \in DOMAIN client.calls :
          /\ Pending(k, "read_body")
          /\ \E b \in ReplyInputs(Len(client.body_)) :
                client' = [client EXCEPT !.body_ = b, !.calls[k].st = "ok"]
    /\ UNCHANGED server_vars

C_ReadFails ==
    /\ \E k \in DOMAIN client.calls :
          /\ Pending(k, "read_len") \/ Pending(k, "read_body")
          /\ client' = [client EXCEPT !.calls[k].st = "err"]
    /\ UNCHANGED server_vars

C_TimerCb ==
    /\ \E k \in DOMAIN client.calls :
          /\ client.calls[k].tw \in {"fired", "aborted"}
          /\ client' = timer_wait_handler(client, k)
    /\ UNCHANGED server_vars

C_ResolveCb ==
    /\ \E k \in DOMAIN client.calls :
          /\ Queued(k, "resolve")
          /\ client' = on_resolve(Taken(k), k, client.calls[k].st)
    /\ UNCHANGED server_vars

C_ConnectCb ==
    /\ \E k \in DOMAIN client.calls :
          /\ Queued(k, "connect")
          /\ client' = on_connect(Taken(k), k, client.calls[k].st)
    /\ UNCHANGED server_vars

C_WriteCb ==
    /\ \E k \in DOMAIN client.calls :
          /\ Queued(k, "write")
          /\ client' = on_write(Taken(k), k, client.calls[k].st)
    /\ UNCHANGED server_vars

C_ReadLenCb ==
    /\ \E k \in DOMAIN client.calls :
          /\ Queued(k, "read_len")
          /\ client' = on_read_len(Taken(k), k, client.calls[k].st)
    /\ UNCHANGED server_vars

C_ReadBodyCb ==
    /\ \E k \in DOMAIN client.calls :
          /\ Queued(k, "read_body")
          /\ client' = on_read_body(Taken(k), k, client.calls[k].st)
    /\ UNCHANGED server_vars

NextClient ==
    \/ C_AsyncConnect
    \/ C_AsyncHandshake
    \/ C_Close
    \/ C_TimerExpires
    \/ C_ResolveCompletes
    \/ C_ConnectCompletes
    \/ C_WriteCompletes
    \/ C_ServerSendsLen
    \/ C_ServerSendsBody
    \/ C_ReadFails
    \/ C_TimerCb
    \/ C_ResolveCb
    \/ C_ConnectCb
    \/ C_WriteCb
    \/ C_ReadLenCb
    \/ C_ReadBodyCb

SpecClient == Init /\ [][NextClient]_vars

(***************************************************************************)
(* The client with fairness: a deadline wait that is not cancelled expires *)
(* (steady_timer) and the queued handler of a wait runs (io_context::run). *)
(* Nothing is assumed of the resolver, of the network or of the peer: a    *)
(* resolve, connect, write or read may stay outstanding for ever.  The     *)
(* caller makes its calls and does not call close().                       *)
(***************************************************************************)
NextClientLive ==
    \/ C_AsyncConnect
    \/ C_AsyncHandshake
    \/ C_TimerExpires
    \/ C_ResolveCompletes
    \/ C_ConnectCompletes
    \/ C_WriteCompletes
    \/ C_ServerSendsLen
    \/ C_ServerSendsBody
    \/ C_ReadFails
    \/ C_TimerCb
    \/ C_ResolveCb
    \/ C_ConnectCb
    \/ C_WriteCb
    \/ C_ReadLenCb
    \/ C_ReadBodyCb

SpecClientLive ==
    Init /\ [][NextClientLive]_vars
         /\ WF_vars(C_TimerExpires) /\ WF_vars(C_TimerCb)

(***************************************************************************)
(* Properties of the client.                                               *)
(***************************************************************************)
Timeout == [ec |-> "timed_out", id |-> U64(0), status |-> 0]

\* C1: for every call of async_connect or async_handshake, whatever the order
\* in which the timer callback and the resolve / connect / write / read
\* completions run, the caller's handler is invoked at most once.
C1_HandlerAtMostOnce ==
    \A k \in DOMAIN client.calls : Len(client.calls[k].results) <= 1

\* the race the flag decides: the deadline of a connect expired, its handler
\* was queued, the connect completion ran first and delivered the result,
\* then the deadline handler ran
C1_Witness ==
    \E k \in DOMAIN client.calls :
       /\ client.calls[k].kind = "connect"
       /\ client.calls[k].tw = "ran"
       /\ Len(client.calls[k].results) = 1
       /\ client.calls[k].results[1].ec = "ok"

\* a deadline callback of handshake k that finds *done unset runs in this step
TimeoutWins(k) ==
    /\ k \in DOMAIN client.calls
    /\ client.calls[k].kind = "handshake"
    /\ client.calls[k].tw = "fired" /\ client'.calls[k].tw = "ran"
    /\ ~client.calls[k].done

C8_TimeoutStep ==
    \A k \in 1..MaxCalls :
       TimeoutWins(k) =>
          /\ client'.calls[k].results = <<Timeout>>
          /\ \A j \in DOMAIN client'.calls :
                ~(client'.calls[j].op \in SocketOps
                    /\ client'.calls[j].st = "pending")

C8_TimeoutFinal ==
    \A k \in DOMAIN client.calls :
       ( /\ client.calls[k].kind = "handshake"
         /\ client.calls[k].results # <<>>
         /\ client.calls[k].results[1] = Timeout )
       => /\ client.calls[k].results = <<Timeout>>
          /\ client.calls[k].st # "pending"

\* C8: when the deadline callback of async_handshake runs before the
\* completion of the HELLO_ACK read is processed, the handler receives the
\* timeout error with id 0 and status 0 and the outstanding socket operation
\* is cancelled; afterwards the call delivers nothing more, even when a valid
\* HELLO_ACK completion is processed later.
C8_TimeoutRace == [][C8_TimeoutStep]_vars /\ []C8_TimeoutFinal

\* the read of a valid HELLO_ACK had completed when the deadline callback
\* ran; its handler ran afterwards and delivered nothing
C8_Witness ==
    \E k \in DOMAIN client.calls :
       /\ client.calls[k].kind = "handshake"
       /\ client.calls[k].results = <<Timeout>>
       /\ client.calls[k].op = "read_body" /\ client.calls[k].late = "ok"
       /\ Len(client.body_) >= 10
       /\ client.body_[1] = MSG_HELLO_ACK
       /\ read_u64be(SubSeq(client.body_, 2, 9)) = client.calls[k].client_id

\* the value of a four-byte big-endian prefix whose first byte is 0
PrefixNat(p) == (((p[2] * 256) + p[3]) * 256) + p[4]

\* handshake k invokes the caller's handler in this step
Reports(k) ==
    /\ k \in DOMAIN client.calls
    /\ client.calls[k].kind = "handshake"
    /\ client.calls[k].results = <<>>
    /\ client'.calls[k].results # <<>>

C13_Step ==
    \A k \in 1..MaxCalls :
       Reports(k) =>
          LET r == client'.calls[k].results[1]
          IN  IF r.ec = "ok"
              THEN /\ client'.lenbuf_[1] = 0
                   /\ 10 <= PrefixNat(client'.lenbuf_)
                   /\ PrefixNat(client'.lenbuf_) <= 1048576
                   /\ Len(client'.body_) = PrefixNat(client'.lenbuf_)
                   /\ client'.body_[1] = 129
                   /\ SubSeq(client'.body_, 2, 9)
                         = SubSeq(client.calls[k].req, 6, 13)
                   /\ r.id = client.calls[k].client_id
                   /\ r.status = client'.body_[10]
              ELSE r.id = U64(0) /\ r.status = 0

\* C13: async_handshake reports success (no error, the echoed id, the status
\* byte) only if the reply's length prefix is at least 10 and at most 1 MiB,
\* the first body byte is 0x81 and the echoed id bytes are those of the
\* request; on every failure path the handler gets an error with id 0 and
\* status 0.
C13_HandshakeResult == [][C13_Step]_vars

\* a handshake succeeded on an 11-byte HELLO_ACK with status 1
C13_Witness ==
    \E k \in DOMAIN client.calls :
       /\ client.calls[k].kind = "handshake"
       /\ client.calls[k].results
             = <<[ec |-> "ok", id |-> client.calls[k].client_id, status |-> 1]>>
       /\ Len(client.body_) = 11

\* call k has been made / has invoked its handler
Called(k) == k \in DOMAIN client.calls

Reported(k) == k \in DOMAIN client.calls /\ client.calls[k].results # <<>>

\* C14: every call of async_connect and of async_handshake eventually invokes
\* its handler, provided the armed deadline wait eventually expires and its
\* queued handler eventually runs, even if the resolve, connect, write or
\* read never completes.
C14_HandlerEventually == \A k \in 1..MaxCalls : Called(k) ~> Reported(k)

\* a connect whose resolve never completed reported the timeout, and a
\* handshake whose read never completed did so too
C14_Witness ==
    /\ Len(client.calls) = 2
    /\ client.calls[1].kind = "connect"
    /\ client.calls[1].op = "resolve" /\ client.calls[1].st = "pending"
    /\ client.calls[1].results # <<>>
    /\ client.calls[2].kind = "handshake"
    /\ client.calls[2].results = <<Timeout>>

\* C15: when the deadline of async_connect fires first, the handler gets the
\* timeout error and from then on no resolve or connect operation of that
\* call is outstanding: the one in flight was cancelled and no new connect
\* is started.
C15_ConnectTimeoutCancels ==
    \A k \in DOMAIN client.calls :
       ( /\ client.calls[k].kind = "connect"
         /\ client.calls[k].results # <<>>
         /\ client.calls[k].results[1].ec = "timed_out" )
       => ~( /\ client.calls[k].op \in {"resolve", "connect"}
             /\ client.calls[k].st = "pending" )

(***************************************************************************)
(* Properties of the server session.                                       *)
(***************************************************************************)
\* the handler that ran last is the body-read handler, it got a complete body
\* and the session was open when it began
Dispatched ==
    /\ cb.name = "read_body" /\ cb.ec = "ok" /\ cb.open

\* the HELLO_ACK frame on the wire for the id bytes of body and a status
AckOnWire(body, status) ==
    <<0, 0, 0, 10, 129>> \o SubSeq(body, 2, 9) \o <<status>>

Last(q) == q[Len(q)]

\* C2: an open session that receives a body of at least 9 bytes whose first
\* byte is 0x01 passes exactly one frame to enqueue_write: length prefix 10,
\* then 0x81, the 8 id bytes of the request and status 0 (for id 42 the body
\* 0x81,0,0,0,0,0,0,0,42,0); unless that closes the session for overflow the
\* frame is then the last of the write queue.
C2_HelloAck ==
    (Dispatched /\ Len(session.body_) >= 9 /\ session.body_[1] = 1) =>
        /\ session.enq_log = <<AckOnWire(session.body_, 0)>>
        /\ (SubSeq(session.body_, 2, 9) = <<0, 0, 0, 0, 0, 0, 0, 42>> =>
              session.enq_log[1] = <<0, 0, 0, 10, 129, 0, 0, 0, 0, 0, 0, 0, 42, 0>>)
        /\ (~session.closed_ =>
              Last(session.write_queue_) = AckOnWire(session.body_, 0))

C2_Witness ==
    /\ Dispatched /\ ~session.closed_
    /\ session.body_ = <<1, 0, 0, 0, 0, 0, 0, 0, 42>>
    /\ session.write_queue_ = <<<<0, 0, 0, 10, 129, 0, 0, 0, 0, 0, 0, 0, 42, 0>>>>

\* the value of a big-endian length prefix of four bytes, when below 2^16
PrefixIsSmall(p) == p[1] = 0 /\ p[2] = 0
PrefixValue(p) == (p[3] * 256) + p[4]

\* the length-read handler ran last, with a complete prefix, on an open session
LengthRead ==
    /\ cb.name = "read_len" /\ cb.ec = "ok" /\ cb.open

\* C5: a length prefix L with 0 < L <= max_frame is accepted and a read of
\* exactly L body bytes is outstanding (L = max_frame included); L = 0 or
\* L > max_frame closes the session, with no body read and no reply enqueued.
C5_FrameLength ==
    LengthRead =>
        IF /\ PrefixIsSmall(session.lenbuf_)
           /\ 0 < PrefixValue(session.lenbuf_)
           /\ PrefixValue(session.lenbuf_) <= MaxFrame
        THEN /\ ~session.closed_
             /\ session.rd_kind = "body"
             /\ Len(session.body_) = PrefixValue(session.lenbuf_)
             /\ session.enq_log = <<>>
        ELSE /\ session.closed_
             /\ session.rd_kind = "none"
             /\ session.enq_log = <<>>

C5_Witness ==
    /\ LengthRead
    /\ PrefixValue(session.lenbuf_) = MaxFrame
    /\ session.rd_kind = "body" /\ session.rd_st = "ok"
    /\ Len(session.body_) = MaxFrame

\* C6: a frame with a valid length whose body has fewer than 9 bytes enqueues
\* no reply and does not close the session, which awaits the next length
\* prefix; a later well-formed HELLO on that session is answered with
\* HELLO_ACK status 0.
C6_ShortBodyIgnored ==
    /\ (Dispatched /\ Len(session.body_) < 9) =>
          /\ session.enq_log = <<>>
          /\ ~session.closed_
          /\ session.rd_kind = "len"
          /\ cb.short
    /\ (Dispatched /\ cb.short /\ Len(session.body_) >= 9
          /\ session.body_[1] = 1) =>
          session.enq_log = <<AckOnWire(session.body_, 0)>>

C6_Witness ==
    /\ Dispatched /\ cb.short /\ ~session.closed_
    /\ session.body_ = <<1, 0, 0, 0, 0, 0, 0, 0, 42>>
    /\ session.enq_log = <<<<0, 0, 0, 10, 129, 0, 0, 0, 0, 0, 0, 0, 42, 0>>>>

\* C7: an open session that receives a body of at least 9 bytes whose first
\* byte is not 0x01 passes exactly one frame to enqueue_write: a HELLO_ACK
\* with the 8 bytes after the type byte as id and status 1 (id 7 for the body
\* 0x02, id 7, filler).
C7_UnknownType ==
    (Dispatched /\ Len(session.body_) >= 9 /\ session.body_[1] # 1) =>
        /\ session.enq_log = <<AckOnWire(session.body_, 1)>>
        /\ (SubSeq(session.body_, 1, 9) = <<2, 0, 0, 0, 0, 0, 0, 0, 7>> =>
              session.enq_log[1] = <<0, 0, 0, 10, 129, 0, 0, 0, 0, 0, 0, 0, 7, 1>>)
        /\ (~session.closed_ =>
              Last(session.write_queue_) = AckOnWire(session.body_, 1))

C7_Witness ==
    /\ Dispatched /\ ~session.closed_
    /\ Len(session.body_) > 9
    /\ SubSeq(session.body_, 1, 9) = <<2, 0, 0, 0, 0, 0, 0, 0, 7>>
    /\ Last(session.write_queue_) = <<0, 0, 0, 10, 129, 0, 0, 0, 0, 0, 0, 0, 7, 1>>

\* C12: a read or write completion that is delivered after the session was
\* closed is discarded: its handler dispatches no message and enqueues no
\* reply, whatever result the completion carries.
C12_LateCompletionDiscarded ==
    (cb.name \in {"read_len", "read_body", "write"} /\ ~cb.open) =>
        session.enq_log = <<>>

\* no handler of the session is in the middle of its run
Quiescent == mt.pcA = "idle" /\ mt.pcB = "idle"

\* C11: when the io_context is run by several worker threads, no two
\* continuations of one session (here the body-read completion, inside
\* enqueue_write, and the write completion) execute at the same time against
\* the session's write queue and queued-byte counter.
C11_HandlersSerialized == mt.pcA = "idle" \/ mt.pcB = "idle"

\* C3: the bytes queued on an open session (4-byte prefix plus body of every
\* frame of the write queue) never exceed max_write_queue_bytes; an enqueue
\* closes the session only if the queued bytes with the new frame exceed
\* the limit, and otherwise the frame is queued and the session stays open.
C3_Backpressure ==
    /\ (Quiescent /\ ~session.closed_) =>
          QueuedBytes(session.write_queue_) <= MaxWriteQueueBytes
    /\ (Quiescent /\ Dispatched /\ session.enq_log # <<>>) =>
          IF session.enq_rejected
          THEN /\ session.closed_
               /\ session.enq_queued + Len(session.enq_log[1])
                     > MaxWriteQueueBytes
          ELSE /\ session.enq_queued + Len(session.enq_log[1])
                     <= MaxWriteQueueBytes
               /\ session.write_queue_ # <<>>
               /\ Last(session.write_queue_) = session.enq_log[1]
               /\ ~session.closed_

\* C10: at most one async write is outstanding at any moment and it is the
\* write of the head of the write queue.
C10_OneWriteInFlight ==
    /\ Len(session.wr_ops) <= 1
    /\ session.wr_ops # <<>> =>
          /\ session.write_queue_ # <<>>
          /\ session.wr_ops[1].buf = Head(session.write_queue_)

\* C10, the order (of the serialized server, where a handler is one step):
\* the write queue changes only by a push at its tail or by
\* the pop of its head; the head is popped only when its write has completed,
\* and a write is started only when none is outstanding.
C10_FifoStep ==
    /\ \/ session'.write_queue_ = session.write_queue_
       \/ /\ session'.write_queue_ # <<>>
          /\ session.write_queue_ =
                SubSeq(session'.write_queue_, 1, Len(session'.write_queue_) - 1)
       \/ /\ session.write_queue_ # <<>>
          /\ session'.write_queue_ = Tail(session.write_queue_)
          /\ Len(session.wr_ops) = 1
          /\ session.wr_ops[1].st \in {"ok", "err"}
          /\ session.wr_ops[1].buf = Head(session.write_queue_)
    /\ (session'.wr_ops # <<>> /\ session.wr_ops # <<>>
          /\ session'.wr_ops[1].st = "pending" /\ session.wr_ops[1].st # "pending") =>
          session'.write_queue_ = Tail(session.write_queue_)

C10_Fifo == [](C10_OneWriteInFlight) /\ [][C10_FifoStep]_vars

(***************************************************************************)
(* A process that owns a client and a server session.  The client is used  *)
(* (and closed) before the session starts; the session then runs against   *)
(* the peer of LiveNext while the client is only closed.                   *)
(***************************************************************************)
B_Start == client.calls = <<>> /\ Start

B_AsyncConnect == ~session.started /\ C_AsyncConnect

B_AsyncHandshake == ~session.started /\ C_AsyncHandshake

NextBoth ==
    \/ B_Start
    \/ LivePeerSendsLen
    \/ LivePeerSendsBody
    \/ ReadFails
    \/ WriteCompletes
    \/ TimerExpires
    \/ ReadLenCb
    \/ ReadBodyCb
    \/ WriteCb
    \/ TimerFiredCb
    \/ TimerAbortedCb
    \/ B_AsyncConnect
    \/ B_AsyncHandshake
    \/ C_Close
    \/ C_TimerExpires
    \/ C_ResolveCompletes
    \/ C_ConnectCompletes
    \/ C_WriteCompletes
    \/ C_ServerSendsLen
    \/ C_ServerSendsBody
    \/ C_ReadFails
    \/ C_TimerCb
    \/ C_ResolveCb
    \/ C_ConnectCb
    \/ C_WriteCb
    \/ C_ReadLenCb
    \/ C_ReadBodyCb

SpecBoth == Init /\ [][NextBoth]_vars

(***************************************************************************)
(* The wire codec on its own: a value is written to a buffer and read      *)
(* back.  The values are built from limbs that exercise every byte         *)
(* position: 0, 1, the byte boundary, the sign bit of a char, all ones.    *)
(***************************************************************************)
LimbInputs == {0, 1, 255, 256, 258, 772, 32768, 65535}

U32Inputs == {<<a, b>> : a \in LimbInputs, b \in LimbInputs}

U64Inputs ==
    {<<a, b, c, d>> : a \in {0, 258, 32768, 65535}, b \in {0, 128, 65535},
                      c \in {0, 258, 65280}, d \in {0, 1, 772, 65535}}

InitCodec ==
    /\ session = SessionInit
    /\ cb = NoCb
    /\ quiet = FALSE
    /\ mt = MtIdle
    /\ client = ClientInit
    /\ listener = ListenerInit
    /\ codec \in {[pc |-> "input", v |-> x, bytes |-> <<>>, r |-> <<>>] :
                     x \in U32Inputs \cup U64Inputs}

codec_frame == <<session, cb, quiet, mt, client, listener>>

Codec_Write32 ==
    /\ codec.pc = "input" /\ Len(codec.v) = 2
    /\ codec' = [codec EXCEPT !.pc = "written", !.bytes = write_u32be(codec.v)]
    /\ UNCHANGED codec_frame

Codec_Read32 ==
    /\ codec.pc = "written" /\ Len(codec.v) = 2
    /\ codec' = [codec EXCEPT !.pc = "read", !.r = read_u32be(codec.bytes)]
    /\ UNCHANGED codec_frame

Codec_Write64 ==
    /\ codec.pc = "input" /\ Len(codec.v) = 4
    /\ codec' = [codec EXCEPT !.pc = "written", !.bytes = write_u64be(codec.v)]
    /\ UNCHANGED codec_frame

Codec_Read64 ==
    /\ codec.pc = "written" /\ Len(codec.v) = 4
    /\ codec' = [codec EXCEPT !.pc = "read", !.r = read_u64be(codec.bytes)]
    /\ UNCHANGED codec_frame

NextCodec ==
    \/ Codec_Write32
    \/ Codec_Read32
    \/ Codec_Write64
    \/ Codec_Read64

SpecCodec == InitCodec /\ [][NextCodec]_vars

\* the bytes of a value, most significant first: every 16-bit limb gives its
\* high byte, then its low byte
RECURSIVE BigEndianBytes(_)
BigEndianBytes(v) ==
    IF v = <<>> THEN <<>>
    ELSE <<Head(v) \div 256, Head(v) % 256>> \o BigEndianBytes(Tail(v))

\* C17: codec round trip: for a 32-bit value v, read_u32be(write_u32be(v)) = v,
\* for a 64-bit value v, read_u64be(write_u64be(v)) = v, and the bytes
\* written are those of v with the most significant byte first.
C17_RoundTrip ==
    /\ codec.pc \in {"written", "read"} =>
          /\ codec.bytes = BigEndianBytes(codec.v)
          /\ \A i \in DOMAIN codec.bytes : codec.bytes[i] \in Byte
    /\ codec.pc = "read" => codec.r = codec.v

\* 0xFFFF008001020304 went through write_u64be and read_u64be
C17_Witness ==
    /\ codec.pc = "read"
    /\ codec.v = <<65535, 128, 258, 772>>
    /\ codec.bytes = <<255, 255, 0, 128, 1, 2, 3, 4>>
    /\ codec.r = <<65535, 128, 258, 772>>

(***************************************************************************)
(* The listener (AsyncServer::run / do_accept, server.cpp:144-154).        *)
(*   listener.running   run() has been called                              *)
(*   listener.accept    the async_accept: "none", "pending", or completed  *)
(*                      with its handler queued: "ok", "err"               *)
(*   listener.sock      the socket a successful accept carries             *)
(*   listener.accepted  connections the operating system has handed over   *)
(*   listener.sessions  the Sessions made: the socket moved in, the state  *)
(*   listener.handled   history: the accept handlers that ran, [ec, sock]  *)
(***************************************************************************)
\* accept completions of one run of the server
MaxAccepts == 5

do_accept(l) == [l EXCEPT !.accept = "pending"]

run(l) == do_accept([l EXCEPT !.running = TRUE])

\* std::make_shared<Session>(std::move(socket), cfg_)->start()
NewSession(sock) == [socket_ |-> sock, s |-> start(SessionInit)]

\* an accept handler that accepts again only after a success
accept_handler_stop_on_error(l, ec, sock) ==
    LET l1 == [l EXCEPT !.handled = Append(@, [ec |-> ec, sock |-> sock])]
    IN  IF ec = "ok"
        THEN do_accept([l1 EXCEPT !.sessions = Append(@, NewSession(sock))])
        ELSE l1

\* the completion handler of async_accept
accept_handler(l, ec, sock) ==
    LET l1 == [l EXCEPT !.handled = Append(@, [ec |-> ec, sock |-> sock])]
        l2 == IF ec = "ok"
              THEN [l1 EXCEPT !.sessions = Append(@, NewSession(sock))]
              ELSE l1
    IN  do_accept(l2)

listener_frame == <<session, cb, quiet, mt, client, codec>>

L_Run ==
    /\ ~listener.running
    /\ listener' = run(listener)
    /\ UNCHANGED listener_frame

\* a connection arrives: the accept completes with a new socket
L_Connection ==
    /\ listener.accept = "pending"
    /\ Len(listener.handled) < MaxAccepts
    /\ listener' = [listener EXCEPT !.accept = "ok",
                                     !.sock = listener.accepted + 1,
                                     !.accepted = @ + 1]
    /\ UNCHANGED listener_frame

\* the accept fails (connection aborted, no descriptors left)
L_AcceptFails ==
    /\ listener.accept = "pending"
    /\ Len(listener.handled) < MaxAccepts
    /\ listener' = [listener EXCEPT !.accept = "err", !.sock = 0]
    /\ UNCHANGED listener_frame

L_AcceptCb ==
    /\ listener.accept \in {"ok", "err"}
    /\ listener' = accept_handler([listener EXCEPT !.accept = "none"],
                                  listener.accept, listener.sock)
    /\ UNCHANGED listener_frame

NextListener ==
    \/ L_Run
    \/ L_Connection
    \/ L_AcceptFails
    \/ L_AcceptCb

SpecListener == Init /\ [][NextListener]_vars

\* the sockets of the successful accepts among the handlers that ran
RECURSIVE AcceptedSockets(_)
AcceptedSockets(h) ==
    IF h = <<>> THEN <<>>
    ELSE (IF Head(h).ec = "ok" THEN <<Head(h).sock>> ELSE <<>>)
            \o AcceptedSockets(Tail(h))

\* a Session that has been started and nothing more: it awaits a length
\* prefix under an armed idle timer
JustStarted(s) ==
    /\ s.started /\ ~s.closed_
    /\ s.rd_kind = "len" /\ s.rd_st = "pending"
    /\ s.t_armed
    /\ s.write_queue_ = <<>> /\ s.wr_ops = <<>>

C16_Inv ==
    /\ listener.running => listener.accept # "none"
    /\ Len(listener.sessions) = Len(AcceptedSockets(listener.handled))
    /\ \A i \in DOMAIN listener.sessions :
          /\ listener.sessions[i].socket_ = AcceptedSockets(listener.handled)[i]
          /\ JustStarted(listener.sessions[i].s)
          /\ \A j \in DOMAIN listener.sessions :
                listener.sessions[j].socket_ = listener.sessions[i].socket_ => j = i

C16_Step ==
    Len(listener'.handled) > Len(listener.handled) =>
       /\ listener'.accept = "pending"
       /\ IF listener.accept = "ok"
          THEN /\ Len(listener'.sessions) = Len(listener.sessions) + 1
               /\ Last(listener'.sessions).socket_ = listener.sock
               /\ SubSeq(listener'.sessions, 1, Len(listener.sessions))
                     = listener.sessions
          ELSE listener'.sessions = listener.sessions

\* C16: after run() every accept completion, successful or failed, is
\* followed by a new outstanding accept, so a failed accept never stops the
\* listener; each successful accept creates and starts exactly one Session,
\* which owns the accepted socket.
C16_AcceptLoop == []C16_Inv /\ [][C16_Step]_vars

\* an accept failed, the next one succeeded and made a Session, and the
\* listener is accepting again
C16_Witness ==
    /\ Len(listener.handled) = 2
    /\ listener.handled[1].ec = "err" /\ listener.handled[2].ec = "ok"
    /\ Len(listener.sessions) = 1
    /\ listener.accept = "pending"

(***************************************************************************)
(* Idle eviction and close.                                                *)
(***************************************************************************)
\* the session waits on a read or a write that has not completed
Waiting ==
    \/ session.rd_st = "pending"
    \/ \E i \in DOMAIN session.wr_ops : session.wr_ops[i].st = "pending"

C4_TimerCovers ==
    (session.started /\ ~session.closed_ /\ Waiting)
       => (session.t_armed \/ session.t_fired > 0)

\* C4: an open session never waits on a read or a write without an idle-timer
\* wait that is armed (or has expired with its handler queued), and from every
\* state in which the peer sends nothing more and no outstanding I/O
\* completes, the timer fires and the session is eventually closed.
C4_IdleEviction == []C4_TimerCovers /\ (quiet ~> session.closed_)

\* the idle timer closed a session whose peer had gone silent
C4_Witness ==
    /\ quiet /\ session.closed_
    /\ cb.name = "timer" /\ cb.ec = "ok" /\ cb.open

\* the handler of an expired idle-timer wait runs in this step
StaleTimerRuns ==
    /\ session'.t_fired < session.t_fired
    /\ ~session.closed_
    /\ (session.t_armed \/ session.t_fired > 1)

C18_Step == StaleTimerRuns => ~session'.closed_

\* C18: an idle-timer wait that has been superseded (a later refresh_timer
\* has armed a new wait, because a read or a write was issued since) never
\* closes the session, even when its handler was already queued when the
\* I/O completion handler ran.
C18_SupersededWaitIsHarmless == [][C18_Step]_vars

\* C19: once the handler in which a session became Closed has returned, no
\* idle-timer wait is armed on the session, so nothing keeps it alive; this
\* includes a close for write-queue overflow during dispatch, after which
\* control returns to the read loop.
C19_ClosedIsQuiet == (session.closed_ /\ cb.open) => ~session.t_armed

\* C20: queue accounting: on an open session, between callbacks,
\* pending_bytes_ equals the sum of the sizes (4-byte prefix plus body) of
\* the frames in write_queue_.
C20_QueueAccounting ==
    (Quiescent /\ ~session.closed_) =>
        session.pending_bytes_ = QueuedBytes(session.write_queue_)

\* the client without the history of close() calls
ClientState(c) == [c EXCEPT !.closes = 0]

\* C9: whatever failure triggers reach a session (I/O error, idle timeout, bad
\* length, write-queue overflow), shutdown + close of the socket is executed
\* at most once and fail_and_close on a closed session changes nothing; a
\* second AsyncClient::close changes nothing either.
C9_CloseIdempotent ==
    /\ session.close_calls <= 1
    /\ session.closed_ => fail_and_close(session) = session
    /\ ClientState(client_close(client_close(client)))
          = ClientState(client_close(client))

\* the idle timer fired on a session that an earlier failure had closed, in a
\* process whose client has been closed twice
C9_Witness ==
    /\ session.close_calls = 1
    /\ cb.name = "timer" /\ cb.ec = "ok" /\ ~cb.open
    /\ client.closes = 2

TypeOK ==
    /\ session.pending_bytes_ \in Int
    /\ ~session.ub

====
